---- MODULE Spec2Model ----
(***************************************************************************)
(* A model of the ILCD package reader (package ilcd): the ZipReader facade *)
(* over a zip archive's directory listing, its lookups by UUID, its        *)
(* enumerations, and Flow.ReferenceFlowProperty.                           *)
(*                                                                         *)
(* Strings that the code inspects (entry names, folder tokens, UUIDs) are  *)
(* sequences of one-character strings, so that strings.Contains and        *)
(* strings.HasSuffix are computed, not assumed.                            *)
(***************************************************************************)
EXTENDS Integers, Sequences, FiniteSets, TLC

VARIABLES
    zr,       \* the *ZipReader NewZipReader returned: "none" (not called), "ZipReader", "nil"
    r,        \* ZipReader.r, the *zip.ReadCloser: "nil", "open", "closed"
    openErr,  \* the error NewZipReader returned: "none" (not called), "nil", "OpenError"
    File,     \* r.r.File, the archive's directory listing (a sequence of entry identifiers)
    pc,       \* "idle", "each" (inside an Each<T> loop), "entry" (inside EachEntry), "panic"
    call,     \* the operation running or last run: [op, path, uuid]
    i,        \* the loop position of the running enumeration (index into File)
    visited,  \* indices of the entries the visitor was invoked with, in order
    reads,    \* indices of the entries readData was called on, in order
    stoppedAt,\* k once the k-th visitor call returned false (Each<T>) or an error (EachEntry), else 0
    ret,      \* what the last finished operation returned: [val, err]
    flow,     \* the receiver of Flow.ReferenceFlowProperty
    rfp       \* what ReferenceFlowProperty returned: -1 (not called), 0 (nil), k (&FlowProperties[k])

vars == <<zr, r, openErr, File, pc, call, i, visited, reads, stoppedAt, ret, flow, rfp>>
archiveVars == <<zr, r, openErr, File, pc, call, i, visited, reads, stoppedAt, ret>>
flowVars == <<flow, rfp>>

(***************************************************************************)
(* Bounds                                                                  *)
(***************************************************************************)
MaxFiles == 3   \* longest directory listing
MaxProps == 3   \* longest FlowProperties list
MaxID == 2      \* largest dataSetInternalID

(***************************************************************************)
(* strings.Contains and strings.HasSuffix                                  *)
(***************************************************************************)
Contains(s, sub) ==
    \E k \in 0..(Len(s) - Len(sub)) : SubSeq(s, k + 1, k + Len(sub)) = sub

HasSuffix(s, suf) ==
    /\ Len(s) >= Len(suf)
    /\ SubSeq(s, Len(s) - Len(suf) + 1, Len(s)) = suf

xmlSuffix == <<".", "x", "m", "l">>
txtSuffix == <<".", "t", "x", "t">>

(***************************************************************************)
(* The folder tokens, as the strings the code passes to findXML            *)
(***************************************************************************)
Paths == {"processes", "flows", "flowproperties", "unitgroups", "sources",
          "contacts", "methods"}

Token(path) ==
    CASE path = "processes"      -> <<"p","r","o","c","e","s","s","e","s">>
      [] path = "flows"          -> <<"f","l","o","w","s">>
      [] path = "flowproperties" -> <<"f","l","o","w","p","r","o","p","e","r","t","i","e","s">>
      [] path = "unitgroups"     -> <<"u","n","i","t","g","r","o","u","p","s">>
      [] path = "sources"        -> <<"s","o","u","r","c","e","s">>
      [] path = "contacts"       -> <<"c","o","n","t","a","c","t","s">>
      [] path = "methods"        -> <<"m","e","t","h","o","d","s">>

\* Is<T>Path: the name contains T's folder token and ends in ".xml"
IsPath(path, name) == Contains(name, Token(path)) /\ HasSuffix(name, xmlSuffix)

(***************************************************************************)
(* Documents, entries and archives                                         *)
(***************************************************************************)
\* the UUID strings used in entry names, documents and requests
U1 == <<"1">>
U12 == <<"1", "2">>
U2 == <<"2">>
U7 == <<"7">>
Uuids == {<<>>, U1, U2, U7}

\* the bytes of an entry: a document with a root element, a UUID and possibly
\* elements the target struct has no field for, or bytes that are not XML
Doc(root, uuid, extra) == [wf |-> TRUE, root |-> root, UUID |-> uuid, extra |-> extra]
Garbage == [wf |-> FALSE, root |-> "", UUID |-> <<>>, extra |-> FALSE]

\* a zip.File: its Name, whether its stream can be opened and read, its bytes
Entry(name, readable, data) == [Name |-> name, readable |-> readable, data |-> data]

EntryName(path, uuid, suffix) == Token(path) \o <<"/">> \o uuid \o suffix

\* the entries an archive may hold, by a short identifier
EntryIds == {"A", "B", "C", "D", "E", "F"}

EntryOf ==
    [id \in EntryIds |->
       CASE id = "A" -> Entry(EntryName("flows", U12, xmlSuffix), TRUE, Doc("flowDataSet", U12, FALSE))
         [] id = "B" -> Entry(EntryName("flows", U1, xmlSuffix), TRUE, Doc("flowDataSet", U1, TRUE))
         [] id = "C" -> Entry(EntryName("flows", U2, xmlSuffix), TRUE, Garbage)
         [] id = "D" -> Entry(EntryName("flows", U1, txtSuffix), TRUE, Doc("flowDataSet", U1, FALSE))
         [] id = "E" -> Entry(EntryName("processes", U1, xmlSuffix), TRUE, Doc("processDataSet", U1, FALSE))
         [] id = "F" -> Entry(EntryName("flowproperties", U2, xmlSuffix), FALSE, Doc("flowPropertyDataSet", U2, FALSE))]

Listings == UNION { [1..n -> EntryIds] : n \in 0..MaxFiles }

(***************************************************************************)
(* Values returned                                                         *)
(***************************************************************************)
Nil == [kind |-> "nil", shape |-> "", UUID |-> <<>>, data |-> Garbage]
DataSet(shape, uuid) == [kind |-> "dataset", shape |-> shape, UUID |-> uuid, data |-> Garbage]
Bytes(data) == [kind |-> "bytes", shape |-> "", UUID |-> <<>>, data |-> data]
Result(val, err) == [val |-> val, err |-> err]
NoResult == Result(Nil, "none")

NoCall == [op |-> "none", path |-> "", uuid |-> <<>>]
Call(op, path, uuid) == [op |-> op, path |-> path, uuid |-> uuid]

(***************************************************************************)
(* The decode pipeline: readData, xml.Unmarshal into a data set, unmarshal *)
(***************************************************************************)
\* the root element Flow.XMLName requires
FlowRoot == "flowDataSet"

\* the root element each data set type's document has
RootOf(path) ==
    CASE path = "flows"          -> FlowRoot
      [] path = "processes"      -> "processDataSet"
      [] path = "flowproperties" -> "flowPropertyDataSet"
      [] path = "unitgroups"     -> "unitGroupDataSet"
      [] path = "sources"        -> "sourceDataSet"
      [] path = "contacts"       -> "contactDataSet"
      [] path = "methods"        -> "LCIAMethodDataSet"

\* readData: the entry's bytes, or the error of opening or reading its stream
readData(file) ==
    IF file.readable THEN Result(Bytes(file.data), "nil")
    ELSE Result(Nil, "IOError")

\* xml.Unmarshal(data, ds) for a ds of the given type: the fields the struct
\* maps are filled in, other elements are dropped; bytes that are not XML or
\* have another root element leave ds empty and give an error
xmlUnmarshal(data, path) ==
    IF data.wf /\ data.root = RootOf(path)
    THEN Result(DataSet(path, data.UUID), "nil")
    ELSE Result(DataSet(path, <<>>), "DecodeError")

\* unmarshal(file, ds): ds after the call, and the error returned
unmarshal(file, path) ==
    LET d == readData(file)
    IN IF d.err # "nil" THEN Result(DataSet(path, <<>>), d.err)
       ELSE xmlUnmarshal(d.val.data, path)

(***************************************************************************)
(* findXML: the first entry, in listing order, whose name contains the     *)
(* folder token, ends in ".xml" and contains the uuid; 0 stands for nil    *)
(***************************************************************************)
\* strings.Contains(name, s) and strings.HasSuffix(name, s) for the name of
\* each entry and each string the code looks for, tabulated once
Needles == { Token(p) : p \in Paths } \cup Uuids \cup {xmlSuffix}
NameContains == [id \in EntryIds |-> [s \in Needles |-> Contains(EntryOf[id].Name, s)]]
NameHasSuffix == [id \in EntryIds |-> [s \in Needles |-> HasSuffix(EntryOf[id].Name, s)]]

RECURSIVE findFrom(_, _, _)
findFrom(path, uuid, k) ==
    IF k > Len(File) THEN 0
    ELSE IF ~NameContains[File[k]][Token(path)] THEN findFrom(path, uuid, k + 1)
    ELSE IF ~NameHasSuffix[File[k]][xmlSuffix] THEN findFrom(path, uuid, k + 1)
    ELSE IF NameContains[File[k]][uuid] THEN k
    ELSE findFrom(path, uuid, k + 1)

\* findXML without the ".xml" test
findXMLAnySuffix(path, uuid) ==
    LET S == { k \in 1..Len(File) :
                 NameContains[File[k]][Token(path)] /\ NameContains[File[k]][uuid] }
    IN IF S = {} THEN 0 ELSE CHOOSE k \in S : \A j \in S : k <= j

\* findXML that keeps scanning and returns the last match
findXMLLast(path, uuid) ==
    LET S == { k \in 1..Len(File) :
                 /\ NameContains[File[k]][Token(path)]
                 /\ NameHasSuffix[File[k]][xmlSuffix]
                 /\ NameContains[File[k]][uuid] }
    IN IF S = {} THEN 0 ELSE CHOOSE k \in S : \A j \in S : k >= j

findXML(path, uuid) == findFrom(path, uuid, 1)

\* xmlData reading the last matching entry
xmlDataLast(path, uuid) ==
    LET k == findXMLLast(path, uuid)
    IN IF k = 0 THEN Result(Nil, "ErrDataSetNotFound") ELSE readData(EntryOf[File[k]])

\* xmlData: the bytes of the entry findXML selects
xmlData(path, uuid) ==
    LET k == findXML(path, uuid)
    IN IF k = 0 THEN Result(Nil, "ErrDataSetNotFound") ELSE readData(EntryOf[File[k]])

\* the body shared by GetProcess, GetFlow and GetFlowProperty
getDataSet(path, uuid) ==
    LET k == findXML(path, uuid)
    IN IF k = 0 THEN Result(Nil, "ErrDataSetNotFound") ELSE unmarshal(EntryOf[File[k]], path)

(***************************************************************************)
(* Flow.ReferenceFlowProperty                                              *)
(***************************************************************************)
IDs == 0..MaxID
NilFlow == [isNil |-> TRUE, propsNil |-> TRUE, props |-> <<>>, refID |-> 0]
Flows ==
    {NilFlow}
    \cup { [isNil |-> FALSE, propsNil |-> TRUE, props |-> <<>>, refID |-> d] : d \in IDs }
    \cup { [isNil |-> FALSE, propsNil |-> FALSE, props |-> ps, refID |-> d] :
             ps \in UNION { [1..n -> IDs] : n \in 0..MaxProps }, d \in IDs }

\* the loop returning the last entry with the reference ID
refFromLast(f, k) ==
    LET M == { j \in k..Len(f.props) : f.props[j] = f.refID }
    IN IF M = {} THEN 0 ELSE CHOOSE j \in M : \A h \in M : j >= h

RECURSIVE refFrom(_, _)
refFrom(f, k) ==
    IF k > Len(f.props) THEN 0
    ELSE IF f.props[k] = f.refID THEN k
    ELSE refFrom(f, k + 1)

\* 0 stands for nil, k for &f.FlowProperties[k]
ReferenceFlowProperty(f) ==
    IF f.isNil \/ f.propsNil THEN 0 ELSE refFrom(f, 1)

(***************************************************************************)
(* Initial state: no reader has been created                               *)
(***************************************************************************)
InitArchive ==
    /\ zr = "none"
    /\ r = "nil"
    /\ openErr = "none"
    /\ File = <<>>
    /\ pc = "idle"
    /\ call = NoCall
    /\ i = 0
    /\ visited = <<>>
    /\ reads = <<>>
    /\ stoppedAt = 0
    /\ ret = NoResult

Init == InitArchive /\ flow = NilFlow /\ rfp = -1

(***************************************************************************)
(* NewZipReader and Close                                                  *)
(***************************************************************************)
\* zip.OpenReader gives (handle, nil) or (nil, err); NewZipReader wraps either
\* in a ZipReader and returns it with the error
NewZipReader ==
    /\ zr = "none"
    /\ zr' = "ZipReader"
    /\ \/ /\ r' = "open"
          /\ openErr' = "nil"
          /\ File' \in Listings
       \/ /\ r' = "nil"
          /\ openErr' = "OpenError"
          /\ File' = <<>>
    /\ call' = Call("NewZipReader", "", <<>>)
    /\ UNCHANGED <<pc, i, visited, reads, stoppedAt, ret, flow, rfp>>

\* a method that dereferences r.r while r.r is nil panics
Panic(op, path, uuid) ==
    /\ pc' = "panic"
    /\ call' = Call(op, path, uuid)
    /\ ret' = Result(Nil, "panic")
    /\ i' = 0
    /\ visited' = <<>>
    /\ reads' = <<>>
    /\ stoppedAt' = 0
    /\ UNCHANGED <<zr, r, openErr, File, flow, rfp>>

\* a method may be called on a reader that exists and was not closed (use
\* after Close is outside the reader's contract and is not modelled)
Callable == pc = "idle" /\ zr = "ZipReader" /\ r # "closed"

Close ==
    /\ Callable
    /\ IF r = "nil" THEN Panic("Close", "", <<>>)
       ELSE /\ r' = "closed"
            /\ call' = Call("Close", "", <<>>)
            /\ ret' = Result(Nil, "nil")
            /\ i' = 0
            /\ visited' = <<>>
            /\ reads' = <<>>
            /\ stoppedAt' = 0
            /\ UNCHANGED <<zr, openErr, File, pc, flow, rfp>>

(***************************************************************************)
(* Lookups by UUID                                                         *)
(***************************************************************************)
\* a return that closes the archive when the lookup found nothing
ReturnsClosingOnMiss(op, path, uuid, result, read) ==
    /\ call' = Call(op, path, uuid)
    /\ ret' = result
    /\ reads' = read
    /\ i' = 0
    /\ visited' = <<>>
    /\ stoppedAt' = 0
    /\ r' = IF result.err = "ErrDataSetNotFound" THEN "closed" ELSE r
    /\ UNCHANGED <<zr, openErr, File, pc, flow, rfp>>

\* an operation that runs to its return in one step
Returns(op, path, uuid, result, read) ==
    /\ call' = Call(op, path, uuid)
    /\ ret' = result
    /\ reads' = read
    /\ i' = 0
    /\ visited' = <<>>
    /\ stoppedAt' = 0
    /\ UNCHANGED <<zr, r, openErr, File, pc, flow, rfp>>

ReadOf(path, uuid) ==
    IF findXML(path, uuid) = 0 THEN <<>> ELSE <<findXML(path, uuid)>>

Get(path, uuid) ==
    /\ Callable
    /\ IF r = "nil" THEN Panic("Get", path, uuid)
       ELSE Returns("Get", path, uuid, getDataSet(path, uuid), ReadOf(path, uuid))

GetData(path, uuid) ==
    /\ Callable
    /\ IF r = "nil" THEN Panic("GetData", path, uuid)
       ELSE Returns("GetData", path, uuid, xmlData(path, uuid), ReadOf(path, uuid))

GetProcess == \E uuid \in Uuids : Get("processes", uuid)
GetProcessData == \E uuid \in Uuids : GetData("processes", uuid)
GetFlow == \E uuid \in Uuids : Get("flows", uuid)
GetFlowData == \E uuid \in Uuids : GetData("flows", uuid)
GetFlowProperty == \E uuid \in Uuids : Get("flowproperties", uuid)
GetFlowPropertyData == \E uuid \in Uuids : GetData("flowproperties", uuid)
GetUnitGroupData == \E uuid \in Uuids : GetData("unitgroups", uuid)
GetSource == \E uuid \in Uuids : GetData("sources", uuid)
GetContact == \E uuid \in Uuids : GetData("contacts", uuid)

(***************************************************************************)
(* Enumerations: Each<T>                                                   *)
(***************************************************************************)
\* the call and the evaluation of the range expression r.r.File
Each(path) ==
    /\ Callable
    /\ IF r = "nil" THEN Panic("Each", path, <<>>)
       ELSE /\ pc' = "each"
            /\ call' = Call("Each", path, <<>>)
            /\ i' = 1
            /\ visited' = <<>>
            /\ reads' = <<>>
            /\ stoppedAt' = 0
            /\ ret' = NoResult
            /\ UNCHANGED <<zr, r, openErr, File, flow, rfp>>

EachProcess == Each("processes")
EachFlow == Each("flows")
EachMethod == Each("methods")
EachFlowProperty == Each("flowproperties")
EachUnitGroup == Each("unitgroups")
EachContact == Each("contacts")
EachSource == Each("sources")

\* the path test without the ".xml" suffix
MatchesTokenOnly(path, k) == Contains(EntryOf[File[k]].Name, Token(path))

\* if Is<T>Path(f.Name)
Matches(path, k) == IsPath(path, EntryOf[File[k]].Name)

\* the error of unmarshal ignored
AbortsNever(err) == FALSE

\* if err := unmarshal(f, ds); err != nil { return err }
Aborts(err) == err # "nil"

\* the handler's answer ignored
BreaksNever(continue) == FALSE

\* if !handler(ds) { break }
Breaks(continue) == ~continue

\* one iteration of the loop over r.r.File; the handler's answer is an input
EachIteration ==
    /\ pc = "each"
    /\ i <= Len(File)
    /\ IF ~Matches(call.path, i)
       THEN /\ i' = i + 1
            /\ UNCHANGED <<pc, visited, reads, stoppedAt, ret>>
       ELSE /\ reads' = Append(reads, i)
            /\ IF Aborts(unmarshal(EntryOf[File[i]], call.path).err)
               THEN /\ ret' = Result(Nil, unmarshal(EntryOf[File[i]], call.path).err)
                    /\ pc' = "idle"
                    /\ UNCHANGED <<i, visited, stoppedAt>>
               ELSE /\ visited' = Append(visited, i)
                    /\ \E continue \in BOOLEAN :
                          /\ stoppedAt' = IF continue THEN stoppedAt ELSE Len(visited) + 1
                          /\ IF Breaks(continue)
                             THEN /\ ret' = Result(Nil, "nil")
                                  /\ pc' = "idle"
                                  /\ UNCHANGED i
                             ELSE /\ i' = i + 1
                                  /\ UNCHANGED <<pc, ret>>
    /\ UNCHANGED <<zr, r, openErr, File, call, flow, rfp>>

\* the loop is over: return nil
EachReturn ==
    /\ pc = "each"
    /\ i > Len(File)
    /\ ret' = Result(Nil, "nil")
    /\ pc' = "idle"
    /\ UNCHANGED <<zr, r, openErr, File, call, i, visited, reads, stoppedAt, flow, rfp>>

(***************************************************************************)
(* EachEntry                                                               *)
(***************************************************************************)
EachEntry ==
    /\ Callable
    /\ IF r = "nil" THEN Panic("EachEntry", "", <<>>)
       ELSE /\ pc' = "entry"
            /\ call' = Call("EachEntry", "", <<>>)
            /\ i' = 1
            /\ visited' = <<>>
            /\ reads' = <<>>
            /\ stoppedAt' = 0
            /\ ret' = NoResult
            /\ UNCHANGED <<zr, r, openErr, File, flow, rfp>>

\* the errors of readData and fn ignored
FailsNever(err) == FALSE

\* if err != nil { return err }, after readData and after fn
Fails(err) == err # "nil"

\* one iteration; the error fn returns is an input
EachEntryIteration ==
    /\ pc = "entry"
    /\ i <= Len(File)
    /\ reads' = Append(reads, i)
    /\ IF Fails(readData(EntryOf[File[i]]).err)
       THEN /\ ret' = Result(Nil, readData(EntryOf[File[i]]).err)
            /\ pc' = "idle"
            /\ UNCHANGED <<i, visited, stoppedAt>>
       ELSE /\ visited' = Append(visited, i)
            /\ \E err \in {"nil", "VisitorError"} :
                  /\ stoppedAt' = IF err = "nil" THEN stoppedAt ELSE Len(visited) + 1
                  /\ IF Fails(err)
                     THEN /\ ret' = Result(Nil, err)
                          /\ pc' = "idle"
                          /\ UNCHANGED i
                     ELSE /\ i' = i + 1
                          /\ UNCHANGED <<pc, ret>>
    /\ UNCHANGED <<zr, r, openErr, File, call, flow, rfp>>

EachEntryReturn ==
    /\ pc = "entry"
    /\ i > Len(File)
    /\ ret' = Result(Nil, "nil")
    /\ pc' = "idle"
    /\ UNCHANGED <<zr, r, openErr, File, call, i, visited, reads, stoppedAt, flow, rfp>>

(***************************************************************************)
(* The reader's specification                                              *)
(***************************************************************************)
Next ==
    \/ NewZipReader
    \/ Close
    \/ GetProcess
    \/ GetProcessData
    \/ GetFlow
    \/ GetFlowData
    \/ GetFlowProperty
    \/ GetFlowPropertyData
    \/ GetUnitGroupData
    \/ GetSource
    \/ GetContact
    \/ EachProcess
    \/ EachFlow
    \/ EachMethod
    \/ EachFlowProperty
    \/ EachUnitGroup
    \/ EachContact
    \/ EachSource
    \/ EachIteration
    \/ EachReturn
    \/ EachEntry
    \/ EachEntryIteration
    \/ EachEntryReturn

Spec == Init /\ [][Next]_vars

(***************************************************************************)
(* ReferenceFlowProperty applied to a decoded flow                         *)
(***************************************************************************)
InitFlow == InitArchive /\ flow \in Flows /\ rfp = -1

CallReferenceFlowProperty ==
    /\ rfp = -1
    /\ rfp' = ReferenceFlowProperty(flow)
    /\ UNCHANGED <<flow, zr, r, openErr, File, pc, call, i, visited, reads, stoppedAt, ret>>

NextFlow == CallReferenceFlowProperty

SpecFlow == InitFlow /\ [][NextFlow]_vars

(***************************************************************************)
(* Vocabulary of the properties                                            *)
(***************************************************************************)
NameAt(k) == EntryOf[File[k]].Name
DataAt(k) == EntryOf[File[k]].data

\* entry k carries T's folder token and the ".xml" suffix
OfType(path, k) == Contains(NameAt(k), Token(path)) /\ HasSuffix(NameAt(k), xmlSuffix)

\* the entries a lookup of (path, uuid) may select
Qualifying(path, uuid) ==
    { k \in 1..Len(File) : OfType(path, k) /\ Contains(NameAt(k), uuid) }

First(S) == CHOOSE k \in S : \A j \in S : k <= j

\* entry k is a data set of type T with UUID uuid, stored under that UUID
IsEntity(path, uuid, k) ==
    /\ NameAt(k) = EntryName(path, uuid, xmlSuffix)
    /\ EntryOf[File[k]].readable
    /\ DataAt(k).wf
    /\ DataAt(k).root = RootOf(path)
    /\ DataAt(k).UUID = uuid

\* no entry of type T is named after uuid or holds a document with that UUID
Absent(path, uuid) ==
    \A k \in 1..Len(File) :
        OfType(path, k) =>
            /\ NameAt(k) # EntryName(path, uuid, xmlSuffix)
            /\ DataAt(k).UUID # uuid

LookupDone == pc = "idle" /\ call.op \in {"Get", "GetData"}
NotFound == Result(Nil, "ErrDataSetNotFound")

Increasing(seq) == \A a, b \in 1..Len(seq) : a < b => seq[a] < seq[b]
Range(seq) == { seq[k] : k \in 1..Len(seq) }

(***************************************************************************)
(* C1                                                                      *)
(***************************************************************************)
\* C1 as stated: a lookup of a UUID that no entity of the type has fails with
\* ErrDataSetNotFound and returns nothing.
C1_AsStated ==
    (LookupDone /\ Absent(call.path, call.uuid)) => ret = NotFound

\* C1, amended: a lookup of a string that occurs in the name of no entry
\* carrying the type's folder token and the ".xml" suffix fails with
\* ErrDataSetNotFound, returns neither a data set nor bytes, and gives no
\* other error.
C1_NotFoundWhenNoNameContains ==
    (LookupDone /\ Qualifying(call.path, call.uuid) = {}) => ret = NotFound

\* a lookup failed although the archive holds entries of the type, and
\* entries whose names contain the string under another folder or suffix
C1_Witness ==
    /\ LookupDone
    /\ Qualifying(call.path, call.uuid) = {}
    /\ ret = NotFound
    /\ \E k \in 1..Len(File) : OfType(call.path, k)
    /\ \E k \in 1..Len(File) : Contains(NameAt(k), call.uuid) /\ ~OfType(call.path, k)

(***************************************************************************)
(* C2                                                                      *)
(***************************************************************************)
\* a typed lookup has returned and the raw lookup of the same type and UUID
\* returns in this step
TypedThenRaw ==
    /\ pc = "idle"
    /\ call.op = "Get"
    /\ call'.op = "GetData"
    /\ call'.path = call.path
    /\ call'.uuid = call.uuid

\* C2 as stated: when the archive holds an entity of the type with UUID u,
\* Get<T>(u) returns a value whose UUID is u and Get<T>Data(u) returns bytes
\* that decode to that value.
C2_AsStated ==
    [][ (TypedThenRaw /\ \E k \in 1..Len(File) : IsEntity(call.path, call.uuid, k))
        => /\ ret.err = "nil"
           /\ ret.val.UUID = call.uuid
           /\ ret'.err = "nil"
           /\ xmlUnmarshal(ret'.val.data, call.path) = ret ]_vars

\* C2, amended: Get<T>(u) and Get<T>Data(u) select the same entry: whenever
\* Get<T>(u) returns a value, Get<T>Data(u) returns bytes that decode to that
\* value; and that value's UUID is u when the first entry, in listing order,
\* that carries the type's folder token and the ".xml" suffix and whose name
\* contains u is an entity with UUID u.
C2_SameEntry ==
    [][ TypedThenRaw
        => /\ ret.err = "nil" =>
                 /\ ret'.err = "nil"
                 /\ xmlUnmarshal(ret'.val.data, call.path) = ret
           /\ ( /\ Qualifying(call.path, call.uuid) # {}
                /\ IsEntity(call.path, call.uuid, First(Qualifying(call.path, call.uuid))) )
              => (ret.err = "nil" /\ ret.val.UUID = call.uuid) ]_vars

\* a raw lookup returned the bytes of an entity with the requested UUID,
\* chosen among several entries whose names contain it
C2_Witness ==
    /\ pc = "idle"
    /\ call.op = "GetData"
    /\ call.path = "flows"
    /\ Cardinality(Qualifying(call.path, call.uuid)) >= 2
    /\ IsEntity(call.path, call.uuid, First(Qualifying(call.path, call.uuid)))
    /\ ret.err = "nil"
    /\ xmlUnmarshal(ret.val.data, call.path) = Result(DataSet("flows", call.uuid), "nil")
    /\ ret.val.data.extra

(***************************************************************************)
(* C3, C4, C5: Each<T>                                                     *)
(***************************************************************************)
EachDone == pc = "idle" /\ call.op = "Each"

\* C3: when every matching entry decodes and the handler always answers true,
\* Each<T> calls the handler exactly once for each entry that carries T's
\* folder token and ends in ".xml", in listing order, and for no other entry.
C3_VisitsExactlyMatching ==
    (EachDone /\ ret.err = "nil" /\ stoppedAt = 0) =>
        /\ Increasing(visited)
        /\ Range(visited) = { k \in 1..Len(File) : OfType(call.path, k) }

\* an enumeration visited two entries and passed over an entry of another
\* type and an entry without the ".xml" suffix
C3_Witness ==
    /\ EachDone
    /\ ret.err = "nil"
    /\ stoppedAt = 0
    /\ Len(visited) = 2
    /\ Len(File) > 2
    /\ \E k \in 1..Len(File) :
          k \notin Range(visited) /\ Contains(NameAt(k), Token(call.path))

\* C4: once the handler answers false on its k-th call, Each<T> calls it no
\* more: it was called exactly k times, no entry after the k-th matching one
\* is read, and Each<T> returns nil.
C4_StopsAtK ==
    (call.op = "Each" /\ stoppedAt # 0) =>
        /\ pc = "idle"
        /\ ret = Result(Nil, "nil")
        /\ Len(visited) = stoppedAt
        /\ reads = visited
        /\ \A k \in Range(reads) : k <= visited[stoppedAt]

\* the handler answered false on its second call, with a matching entry
\* still to come
C4_Witness ==
    /\ EachDone
    /\ stoppedAt = 2
    /\ \E k \in 1..Len(File) : k > visited[2] /\ OfType(call.path, k)

\* C5: when a matching entry cannot be read or decoded, Each<T> returns that
\* error at once: the handler has been called for exactly the matching
\* entries before it, in order, not for the failing entry and not for any
\* later one; a failing entry is never passed over.
C5_AbortsOnFirstFailure ==
    /\ (call.op = "Each" /\ pc \in {"each", "idle"}) =>
          \A k \in Range(visited) :
              OfType(call.path, k) /\ unmarshal(EntryOf[File[k]], call.path).err = "nil"
    /\ (call.op = "Each" /\ pc = "each") =>
          \A k \in 1..(i - 1) : OfType(call.path, k) => k \in Range(visited)
    /\ (EachDone /\ ret.err \notin {"nil", "none"}) =>
          /\ i \in 1..Len(File)
          /\ OfType(call.path, i)
          /\ ret.err = unmarshal(EntryOf[File[i]], call.path).err
          /\ Increasing(visited)
          /\ Range(visited) = { k \in 1..(i - 1) : OfType(call.path, k) }
          /\ reads = Append(visited, i)
    /\ (EachDone /\ ret.err = "nil") =>
          \A k \in 1..Len(File) :
              (OfType(call.path, k) /\ unmarshal(EntryOf[File[k]], call.path).err # "nil")
                  => (stoppedAt # 0 /\ k > visited[stoppedAt])

\* an enumeration failed on a malformed entry after one visit, with a
\* matching entry listed after the malformed one
C5_Witness ==
    /\ EachDone
    /\ ret.err = "DecodeError"
    /\ Len(visited) = 1
    /\ \E k \in 1..Len(File) : k > i /\ OfType(call.path, k)

(***************************************************************************)
(* C6: EachEntry                                                           *)
(***************************************************************************)
EachEntryDone == pc = "idle" /\ call.op = "EachEntry"

\* C6: EachEntry hands every entry to the visitor in listing order whatever
\* its type; the first read failure or the first error the visitor returns
\* ends the walk and is the error returned, and no later entry is visited;
\* nil is returned only when every entry was read and every visit gave nil.
C6_EachEntry ==
    /\ (call.op = "EachEntry" /\ pc = "entry") =>
          /\ visited = [k \in 1..(i - 1) |-> k]
          /\ reads = visited
          /\ stoppedAt = 0
          /\ \A k \in 1..(i - 1) : EntryOf[File[k]].readable
    /\ (call.op = "EachEntry" /\ stoppedAt # 0) =>
          /\ pc = "idle"
          /\ ret = Result(Nil, "VisitorError")
          /\ visited = [k \in 1..stoppedAt |-> k]
          /\ reads = visited
    /\ (EachEntryDone /\ ret.err = "nil") =>
          /\ visited = [k \in 1..Len(File) |-> k]
          /\ reads = visited
          /\ stoppedAt = 0
          /\ \A k \in 1..Len(File) : EntryOf[File[k]].readable
    /\ (EachEntryDone /\ ret.err = "IOError") =>
          /\ i \in 1..Len(File)
          /\ ~EntryOf[File[i]].readable
          /\ visited = [k \in 1..(i - 1) |-> k]
          /\ reads = [k \in 1..i |-> k]
          /\ stoppedAt = 0
    /\ EachEntryDone => ret.err \in {"nil", "IOError", "VisitorError"}

\* a walk ended on an unreadable entry after one visit, with an entry still
\* to come
C6_Witness ==
    /\ EachEntryDone
    /\ ret.err = "IOError"
    /\ Len(visited) = 1
    /\ i < Len(File)

(***************************************************************************)
(* C7                                                                      *)
(***************************************************************************)
\* C7: a lookup that fails with ErrDataSetNotFound leaves the reader as it
\* was: the handle stays open and the listing is the same, so later calls see
\* the archive they would have seen without it.
C7_NotFoundLeavesReader ==
    [][ (call'.op \in {"Get", "GetData"} /\ ret' = NotFound)
        => (zr' = zr /\ r = "open" /\ r' = r /\ File' = File /\ pc' = "idle") ]_vars

\* a lookup has failed on an open, non-empty archive
C7_Witness ==
    /\ LookupDone
    /\ ret = NotFound
    /\ r = "open"
    /\ Len(File) > 0

(***************************************************************************)
(* C8                                                                      *)
(***************************************************************************)
\* C8 as stated: when NewZipReader fails, the caller gets an error and no
\* reader on which a method can be run, and no method runs against a handle
\* that was not opened.
C8_AsStated ==
    /\ openErr = "OpenError" => zr # "ZipReader"
    /\ pc # "panic"

(***************************************************************************)
(* C10                                                                     *)
(***************************************************************************)
\* C10: a lookup selects the first entry, in listing order, whose name
\* contains the folder token, ends in ".xml" and contains the uuid; it
\* returns ErrDataSetNotFound exactly when there is none, and otherwise what
\* decoding (typed) or reading (raw) that one entry gives.
C10_FirstMatchWins ==
    LookupDone =>
        LET Q == Qualifying(call.path, call.uuid)
        IN /\ (ret = NotFound) <=> (Q = {})
           /\ Q # {} =>
                 /\ reads = <<First(Q)>>
                 /\ call.op = "Get" => ret = unmarshal(EntryOf[File[First(Q)]], call.path)
                 /\ call.op = "GetData" => ret = readData(EntryOf[File[First(Q)]])

\* a lookup returned the first of two qualifying entries that give
\* different results
C10_Witness ==
    /\ LookupDone
    /\ call.op = "Get"
    /\ \E a, b \in Qualifying(call.path, call.uuid) :
          /\ a < b
          /\ a = First(Qualifying(call.path, call.uuid))
          /\ unmarshal(EntryOf[File[a]], call.path) # unmarshal(EntryOf[File[b]], call.path)
          /\ ret = unmarshal(EntryOf[File[a]], call.path)

(***************************************************************************)
(* C9: Flow.ReferenceFlowProperty                                          *)
(***************************************************************************)
\* C9: ReferenceFlowProperty returns nil when the flow is nil, its list is
\* unset or no entry has the reference ID; otherwise it returns the first
\* entry of the flow's own list whose ID is the reference ID, whatever the
\* list's length.
C9_ReferenceFlowProperty ==
    rfp # -1 =>
        LET M == { k \in 1..Len(flow.props) : flow.props[k] = flow.refID }
        IN IF flow.isNil \/ flow.propsNil \/ M = {}
           THEN rfp = 0
           ELSE rfp \in M /\ \A k \in M : rfp <= k

\* the reference property is the second entry of a longer list, and a later
\* entry has the same ID
C9_Witness ==
    /\ rfp = 2
    /\ Len(flow.props) >= 3
    /\ flow.props[3] = flow.refID
====
